---------------------------- MODULE Spec2Model ----------------------------
(***************************************************************************)
(* AI Quiz Generator: the quiz session of QuizDisplay (answers, submit,    *)
(* confirmation modal, results and score), the question-count and text     *)
(* validation of QuizInput, and shuffleArray of App.                       *)
(*                                                                         *)
(* Spec       the program as rendered: a handler runs only when the        *)
(*            control that calls it is rendered and enabled.               *)
(* SpecCalls  the same handlers, called in any state of a mounted          *)
(*            component (out-of-state calls), with the arguments their     *)
(*            call sites pass.                                             *)
(***************************************************************************)
EXTENDS Integers, Sequences, FiniteSets, Bags, TLC

VARIABLES
    quiz,               \* App: quiz state (Quiz | null), the prop of QuizDisplay
    negativeMarking,    \* App: quizSettings.negativeMarking, the prop of QuizDisplay
    userAnswers,        \* QuizDisplay: Record<number, string>
    showResults,        \* QuizDisplay: boolean
    isConfirmModalOpen, \* QuizDisplay: boolean
    lastCall,           \* history: the handler that ran last
    answersAtSubmit,    \* history: userAnswers when the modal was last opened
    shuffleIn,          \* shuffleArray: the array as passed
    shuffleRandoms,     \* shuffleArray: the values Math.random() returned, in order
    shuffleOut,         \* shuffleArray: the array as returned
    mode,               \* QuizInput: 'text' | 'pdf'
    text,               \* QuizInput: the textarea's string, a sequence of characters
    file,               \* QuizInput: File | null
    numQuestions,       \* QuizInput: number
    inputNegativeMarking, \* QuizInput: negativeMarking (the checkbox)
    localError,         \* QuizInput: string | null
    isProcessing,       \* usePdfProcessor: isProcessing
    pdfError,           \* usePdfProcessor: error
    isLoading,          \* App: isLoading
    error,              \* App: error
    pending,            \* the asynchronous calls in flight, oldest first
    lastNumInput        \* history: the last valueAsNumber given to the count input

sessionVars == <<userAnswers, showResults, isConfirmModalOpen>>
displayVars == <<quiz, negativeMarking, userAnswers, showResults,
                 isConfirmModalOpen, lastCall, answersAtSubmit>>
shuffleVars == <<shuffleIn, shuffleRandoms, shuffleOut>>
formVars == <<mode, text, file, numQuestions, inputNegativeMarking, localError,
              isProcessing, pdfError>>
appVars == <<isLoading, error, pending>>
inputVars == <<formVars, appVars, lastNumInput>>
vars == <<displayVars, shuffleVars, inputVars>>

---------------------------------------------------------------------------
(* Bounds *)

MaxQuestions == 3

\* valueAsNumber is n / NumberScale for an integer n
NumberScale == 4

\* the numbers typed into the count input run from -NumberMargin to
\* NumQuestionsMax + NumberMargin
NumberMargin == 2

\* texts carry up to MaxPad whitespace characters at either end
MaxPad == 1

\* asynchronous calls (PDF parses, generation requests) in flight at once
MaxInFlight == 2

\* questions in a quiz the generation request returns to the form
MaxResponseQuestions == 1

\* Math.random() returns r / RandomResolution for r in 0..RandomResolution-1
RandomResolution == 6

---------------------------------------------------------------------------
(* Data: types.ts is not among the sources; the shapes are those the code  *)
(* reads (quiz.questions, question.options, question.correctAnswer).       *)

NoQuiz == [null |-> TRUE]
NoFile == [null |-> TRUE]
\* null where a string may stand (error, localError, pdfError)
Null == "null"
NoAnswers == <<>>
NoCall == "none"

OptionList == <<"A", "B", "C", "D">>
CorrectAnswers == {"A", "B"}

QuestionsWith(texts) ==
    [questionText : texts, options : {OptionList}, correctAnswer : CorrectAnswers]

ListsOf(elements) == UNION {[1..n -> elements] : n \in 0..MaxQuestions}

\* The questions of the quizzes a session is run on
Questions == QuestionsWith({"q"})

QuestionLists == ListsOf(Questions)

\* The arrays shuffleArray is run on
ShuffleInputs == ListsOf(QuestionsWith({"q1", "q2"}))

Quizzes == [questions : QuestionLists]

Range(s) == {s[k] : k \in DOMAIN s}

\* quiz.questions.length
NumQuestions == Len(quiz.questions)

\* quiz.questions[index], index counted from 0 as in the source
QuestionAt(index) == quiz.questions[index + 1]

\* The indices quiz.questions.map passes to QuestionCard
QuestionIndices == 0..(NumQuestions - 1)

---------------------------------------------------------------------------
(* QuizDisplay handlers *)

\* { ...prev, [questionIndex]: option }
SpreadWith(prev, questionIndex, option) ==
    [k \in (DOMAIN prev) \cup {questionIndex} |->
        IF k = questionIndex THEN option ELSE prev[k]]

\* Mutant: the showResults guard is missing
handleAnswerSelect_NoGuard(questionIndex, option) ==
    /\ userAnswers' = SpreadWith(userAnswers, questionIndex, option)
    /\ UNCHANGED <<showResults, isConfirmModalOpen>>

handleAnswerSelect(questionIndex, option) ==
    IF showResults
    THEN UNCHANGED sessionVars
    ELSE /\ userAnswers' = SpreadWith(userAnswers, questionIndex, option)
         /\ UNCHANGED <<showResults, isConfirmModalOpen>>

\* Object.keys(userAnswers).length
answeredCount == Cardinality(DOMAIN userAnswers)

\* Mutant: <= for <
handleSubmitClick_OffByOne ==
    IF answeredCount <= NumQuestions
    THEN /\ isConfirmModalOpen' = TRUE
         /\ UNCHANGED <<userAnswers, showResults>>
    ELSE /\ showResults' = TRUE
         /\ UNCHANGED <<userAnswers, isConfirmModalOpen>>

handleSubmitClick ==
    IF answeredCount < NumQuestions
    THEN /\ isConfirmModalOpen' = TRUE
         /\ UNCHANGED <<userAnswers, showResults>>
    ELSE /\ showResults' = TRUE
         /\ UNCHANGED <<userAnswers, isConfirmModalOpen>>

handleConfirmSubmit ==
    /\ showResults' = TRUE
    /\ isConfirmModalOpen' = FALSE
    /\ UNCHANGED userAnswers

\* onCancel={() => setIsConfirmModalOpen(false)}
onCancel ==
    /\ isConfirmModalOpen' = FALSE
    /\ UNCHANGED <<userAnswers, showResults>>

---------------------------------------------------------------------------
(* The score useMemo *)

RECURSIVE ScoreLoop_NoUndefinedTest(_, _, _)
\* Mutant: the userAnswer === undefined branch is missing
ScoreLoop_NoUndefinedTest(index, correct, incorrect) ==
    IF index >= NumQuestions
    THEN [correct |-> correct, incorrect |-> incorrect]
    ELSE IF index \in DOMAIN userAnswers
            /\ userAnswers[index] = QuestionAt(index).correctAnswer
         THEN ScoreLoop_NoUndefinedTest(index + 1, correct + 1, incorrect)
         ELSE ScoreLoop_NoUndefinedTest(index + 1, correct, incorrect + 1)

RECURSIVE ScoreLoop(_, _, _)
\* quiz.questions.forEach((_question, index) => ...), from index on
ScoreLoop(index, correct, incorrect) ==
    IF index >= NumQuestions
    THEN [correct |-> correct, incorrect |-> incorrect]
    ELSE IF index \notin DOMAIN userAnswers
         THEN ScoreLoop(index + 1, correct, incorrect)
         ELSE IF userAnswers[index] = QuestionAt(index).correctAnswer
              THEN ScoreLoop(index + 1, correct + 1, incorrect)
              ELSE ScoreLoop(index + 1, correct, incorrect + 1)

\* Mutant: the score is floored at zero
ScoreMemo_Floored ==
    IF ~showResults
    THEN [score |-> 0, correctCount |-> 0, incorrectCount |-> 0,
          unansweredCount |-> NumQuestions]
    ELSE LET r == ScoreLoop(0, 0, 0)
             diff == r.correct - r.incorrect
             finalScore == IF negativeMarking
                           THEN (IF diff < 0 THEN 0 ELSE diff)
                           ELSE r.correct
             unanswered == NumQuestions - r.correct - r.incorrect
         IN [score |-> finalScore, correctCount |-> r.correct,
             incorrectCount |-> r.incorrect, unansweredCount |-> unanswered]

ScoreMemo ==
    IF ~showResults
    THEN [score |-> 0, correctCount |-> 0, incorrectCount |-> 0,
          unansweredCount |-> NumQuestions]
    ELSE LET r == ScoreLoop(0, 0, 0)
             finalScore == IF negativeMarking
                           THEN r.correct - r.incorrect
                           ELSE r.correct
             unanswered == NumQuestions - r.correct - r.incorrect
         IN [score |-> finalScore, correctCount |-> r.correct,
             incorrectCount |-> r.incorrect, unansweredCount |-> unanswered]

---------------------------------------------------------------------------
(* App: shuffleArray *)

\* Math.random(): a number in [0, 1), here the numerator over RandomResolution
RandomValues == 0..(RandomResolution - 1)

\* Math.floor(Math.random() * (i + 1)) for the random value r
RandomIndex(r, i) == (r * (i + 1)) \div RandomResolution

\* Mutant: array[i] = array[j] without the exchange
SwapElements_Overwrite(array, i, j) ==
    [array EXCEPT ![i + 1] = array[j + 1]]

\* [array[i], array[j]] = [array[j], array[i]], i and j counted from 0
SwapElements(array, i, j) ==
    [array EXCEPT ![i + 1] = array[j + 1], ![j + 1] = array[i + 1]]

RECURSIVE ShuffleLoop(_, _, _)
\* for (let i = ...; i > 0; i--) { ... }, from i on, with the random values left
ShuffleLoop(array, i, randoms) ==
    IF i > 0
    THEN LET j == RandomIndex(Head(randoms), i)
         IN ShuffleLoop(SwapElements(array, i, j), i - 1, Tail(randoms))
    ELSE array

shuffleArray(array, randoms) == ShuffleLoop(array, Len(array) - 1, randoms)

\* One Math.random() call for each i from array.length - 1 down to 1
RandomSequences(array) ==
    [1..(IF Len(array) > 0 THEN Len(array) - 1 ELSE 0) -> RandomValues]

---------------------------------------------------------------------------
(* What is rendered *)

Mounted == quiz # NoQuiz /\ error = Null

\* <button ... disabled={showResult}> of QuestionCard
AnswerButtonEnabled == Mounted /\ ~showResults

\* {!showResults ? <button onClick={handleSubmitClick}> : <results>}
SubmitButtonRendered == Mounted /\ ~showResults

\* {isConfirmModalOpen && <ConfirmationModal ... />}
ModalRendered == Mounted /\ isConfirmModalOpen

\* "Create Another Quiz" is in the results branch
ResetButtonRendered == Mounted /\ showResults

---------------------------------------------------------------------------
(* App: the session's life *)

FreshSession ==
    /\ userAnswers' = NoAnswers
    /\ showResults' = FALSE
    /\ isConfirmModalOpen' = FALSE

\* setQuiz(null); setError(null); setIsLoading(false): QuizDisplay unmounts
\* and its state is discarded
handleReset ==
    /\ quiz' = NoQuiz
    /\ error' = Null
    /\ isLoading' = FALSE
    /\ FreshSession
    /\ UNCHANGED negativeMarking

\* setQuizSettings({ negativeMarking }); setQuiz(generatedQuiz): QuizDisplay
\* mounts with its useState initial values
MountQuiz(q, nm) ==
    /\ quiz = NoQuiz
    /\ quiz' = q
    /\ negativeMarking' = nm
    /\ FreshSession

---------------------------------------------------------------------------
(* Actions *)

AnswerSelect(enabled) ==
    /\ enabled
    /\ \E questionIndex \in QuestionIndices :
         \E option \in Range(QuestionAt(questionIndex).options) :
            handleAnswerSelect(questionIndex, option)
    /\ lastCall' = "selectAnswer"
    /\ UNCHANGED <<quiz, negativeMarking, answersAtSubmit>>
    /\ UNCHANGED <<shuffleVars, inputVars>>

\* track: whether the history variable answersAtSubmit is kept
SubmitClick(enabled, track) ==
    /\ enabled
    /\ handleSubmitClick
    /\ lastCall' = "submit"
    /\ answersAtSubmit' = IF track /\ isConfirmModalOpen' /\ ~showResults'
                          THEN userAnswers ELSE answersAtSubmit
    /\ UNCHANGED <<quiz, negativeMarking>>
    /\ UNCHANGED <<shuffleVars, inputVars>>

ConfirmSubmit(enabled) ==
    /\ enabled
    /\ handleConfirmSubmit
    /\ lastCall' = "confirm"
    /\ UNCHANGED <<quiz, negativeMarking, answersAtSubmit>>
    /\ UNCHANGED <<shuffleVars, inputVars>>

CancelConfirm(enabled) ==
    /\ enabled
    /\ onCancel
    /\ lastCall' = "cancelConfirm"
    /\ UNCHANGED <<quiz, negativeMarking, answersAtSubmit>>
    /\ UNCHANGED <<shuffleVars, inputVars>>

Reset ==
    /\ ResetButtonRendered
    /\ handleReset
    /\ lastCall' = "reset"
    /\ answersAtSubmit' = NoAnswers
    /\ UNCHANGED <<shuffleVars, formVars, pending, lastNumInput>>

Generate ==
    /\ \E q \in Quizzes, nm \in BOOLEAN : MountQuiz(q, nm)
    /\ lastCall' = NoCall
    /\ answersAtSubmit' = NoAnswers
    /\ UNCHANGED <<shuffleVars, inputVars>>

---------------------------------------------------------------------------
(* QuizInput: the question count *)

NumQuestionsDefault == 10
NumQuestionsMin == 1
NumQuestionsMax == 50
NumQuestionsOnNaN == 1

\* A JavaScript number: NaN, or scaled / NumberScale
NaN == [nan |-> TRUE]
Number(scaled) == [nan |-> FALSE, scaled |-> scaled]
isNaN(num) == num.nan

\* Math.min and Math.max on numbers that are not NaN
MathMin(a, b) == IF a.scaled <= b.scaled THEN a ELSE b
MathMax(a, b) == IF a.scaled >= b.scaled THEN a ELSE b

\* Math.floor, as the integer it yields
MathFloor(num) == num.scaled \div NumberScale

\* Mutant: Math.ceil for Math.floor
ClampCount_Ceil(num) ==
    LET c == MathMax(Number(NumQuestionsMin * NumberScale),
                     MathMin(Number(NumQuestionsMax * NumberScale), num))
    IN (c.scaled + NumberScale - 1) \div NumberScale

\* Math.floor(Math.max(1, Math.min(50, num)))
ClampCount(num) ==
    MathFloor(MathMax(Number(NumQuestionsMin * NumberScale),
                      MathMin(Number(NumQuestionsMax * NumberScale), num)))

\* onChange of the num-questions input, e.target.valueAsNumber being num
numQuestionsOnChange(num) ==
    IF isNaN(num)
    THEN numQuestions' = NumQuestionsOnNaN
    ELSE numQuestions' = ClampCount(num)

\* Every valueAsNumber within the bounds, in steps of 1 / NumberScale
NumberInputs ==
    {NaN} \cup
    {Number(n) : n \in (0 - NumberMargin * NumberScale)..
                       ((NumQuestionsMax + NumberMargin) * NumberScale)}

\* The few of them the form is edited with when the count is not the subject
NumberInputsFew ==
    {NaN, Number(0), Number(3 * NumberScale + 1),
     Number((NumQuestionsMax + 1) * NumberScale)}

---------------------------------------------------------------------------
(* QuizInput: the text *)

MinTextLength == 100

Whitespace == {" ", "\n"}

Repeat(c, n) == [k \in 1..n |-> c]

RECURSIVE trimStart(_)
trimStart(t) ==
    IF t # <<>> /\ Head(t) \in Whitespace THEN trimStart(Tail(t)) ELSE t

RECURSIVE trimEnd(_)
trimEnd(t) ==
    IF t # <<>> /\ t[Len(t)] \in Whitespace
    THEN trimEnd(SubSeq(t, 1, Len(t) - 1))
    ELSE t

\* String.prototype.trim
trim(t) == trimEnd(trimStart(t))

\* Mutant: the length is taken without trim
TextTooShort_NoTrim(t) == Len(t) < MinTextLength

\* text.trim().length < 100
TextTooShort(t) == Len(trim(t)) < MinTextLength

\* A body of n characters that begins and ends with a letter and has a space
\* inside when there is room for one
Body(n) == [k \in 1..n |-> IF k = 2 /\ n >= 3 THEN " " ELSE "x"]

\* The strings typed or pasted: nothing, whitespace alone, and bodies around
\* the minimum length with whitespace before and after
Texts ==
    {Repeat(" ", l) \o Body(n) \o Repeat("\n", r) :
        l \in 0..MaxPad, r \in 0..MaxPad,
        n \in {0} \cup ((MinTextLength - 2)..(MinTextLength + 1))}

\* The few of them the form is filled with when the text is not the subject
TextsFew ==
    {<<>>, Body(MinTextLength - 1), Body(MinTextLength),
     Repeat(" ", 1) \o Body(MinTextLength - 1)}

---------------------------------------------------------------------------
(* QuizInput: the file *)

PdfType == "application/pdf"

\* content: what pdf.js extracts from the file when it can read it
Files == [type : {PdfType, "text/plain"}, content : {"text", "empty"}]

\* handleFileChange, e.target.files?.[0] being selectedFile
handleFileChange(selectedFile) ==
    IF selectedFile.type # PdfType
    THEN /\ localError' = "Please upload a PDF file."
         /\ file' = NoFile
    ELSE /\ localError' = Null
         /\ file' = selectedFile

InitForm ==
    /\ mode = "text"
    /\ text = <<>>
    /\ file = NoFile
    /\ numQuestions = NumQuestionsDefault
    /\ inputNegativeMarking = FALSE
    /\ localError = Null
    /\ isProcessing = FALSE
    /\ pdfError = Null

InitInput ==
    /\ InitForm
    /\ isLoading = FALSE
    /\ error = Null
    /\ pending = <<>>
    /\ lastNumInput = NaN

---------------------------------------------------------------------------
(* App and QuizInput: generation *)

\* {!quiz && <QuizInput .../>}
InputMounted == quiz = NoQuiz

GenerateTask == [kind |-> "generate"]

\* A processPdf call awaiting pdf.js, with what handleSubmit's closure holds;
\* orphan: the QuizInput that made the call has been unmounted since
ParseTask(f, nm) ==
    [kind |-> "parse", file |-> f, negativeMarking |-> nm, orphan |-> FALSE]

CanStart == Len(pending) < MaxInFlight

RemoveAt(seq, k) == SubSeq(seq, 1, k - 1) \o SubSeq(seq, k + 1, Len(seq))

Orphaned(tasks) ==
    [k \in DOMAIN tasks |->
        IF tasks[k].kind = "parse" THEN [tasks[k] EXCEPT !.orphan = TRUE]
        ELSE tasks[k]]

\* handleGenerateQuiz up to its await: setIsLoading(true); setError(null);
\* setQuiz(null); setQuizSettings({ negativeMarking }); the request is sent
handleGenerateQuiz(nm, tasks) ==
    /\ isLoading' = TRUE
    /\ error' = Null
    /\ quiz' = NoQuiz
    /\ negativeMarking' = nm
    /\ pending' = Append(tasks, GenerateTask)
    /\ FreshSession

\* Mutant: setIsProcessing(true) is missing
processPdf_NotBusy(f, nm, libLoaded) ==
    IF libLoaded
    THEN /\ isProcessing' = FALSE
         /\ pdfError' = Null
         /\ pending' = Append(pending, ParseTask(f, nm))
    ELSE /\ isProcessing' = FALSE
         /\ pdfError' = "pdf.js library is not loaded."
         /\ UNCHANGED pending

\* processPdf up to its first await, or through its catch when pdfjsLib is
\* undefined
processPdf(f, nm, libLoaded) ==
    IF libLoaded
    THEN /\ isProcessing' = TRUE
         /\ pdfError' = Null
         /\ pending' = Append(pending, ParseTask(f, nm))
    ELSE /\ isProcessing' = FALSE
         /\ pdfError' = "pdf.js library is not loaded."
         /\ UNCHANGED pending

handleSubmit ==
    IF numQuestions < NumQuestionsMin \/ numQuestions > NumQuestionsMax
    THEN /\ localError' = "Please enter a number of questions between 1 and 50."
         /\ UNCHANGED <<isProcessing, pdfError, appVars, quiz, negativeMarking,
                        sessionVars>>
    ELSE IF mode = "text"
    THEN IF TextTooShort(text)
         THEN /\ localError' = "Please enter at least 100 characters of text."
              /\ UNCHANGED <<isProcessing, pdfError, appVars, quiz,
                             negativeMarking, sessionVars>>
         ELSE /\ CanStart
              /\ localError' = Null
              /\ handleGenerateQuiz(inputNegativeMarking, pending)
              /\ UNCHANGED <<isProcessing, pdfError>>
    ELSE IF file = NoFile
         THEN /\ localError' = "Please select a PDF file."
              /\ UNCHANGED <<isProcessing, pdfError, appVars, quiz,
                             negativeMarking, sessionVars>>
         ELSE /\ CanStart
              /\ localError' = Null
              /\ \E libLoaded \in BOOLEAN :
                    processPdf(file, inputNegativeMarking, libLoaded)
              /\ UNCHANGED <<isLoading, error, quiz, negativeMarking, sessionVars>>

\* if (isGenerating || isPdfProcessing) return true; ...
isButtonDisabled ==
    \/ isLoading \/ isProcessing
    \/ numQuestions < NumQuestionsMin \/ numQuestions > NumQuestionsMax
    \/ mode = "text" /\ TextTooShort(text)
    \/ mode = "pdf" /\ file = NoFile

\* {isLoading ? <Loader/> : <> the controls </>}, isLoading being
\* isGenerating || isPdfProcessing
FormShown == InputMounted /\ ~(isLoading \/ isProcessing)

\* QuizInput unmounts: its state, and that of its usePdfProcessor, is gone
FormUnmounted ==
    /\ mode' = "text"
    /\ text' = <<>>
    /\ file' = NoFile
    /\ numQuestions' = NumQuestionsDefault
    /\ inputNegativeMarking' = FALSE
    /\ localError' = Null
    /\ isProcessing' = FALSE
    /\ pdfError' = Null

\* What pdf.js may do with a file: extract its text, or none, or fail
ParseOutcomes(f) == {f.content, "rejected"}

\* processPdf from its await on, and handleSubmit after it
ParseSettles(k, outcome) ==
    LET t == pending[k]
        rest == RemoveAt(pending, k)
    IN /\ isProcessing' = IF t.orphan THEN isProcessing ELSE FALSE
       /\ pdfError' = IF outcome = "rejected" /\ ~t.orphan
                      THEN "Invalid PDF structure." ELSE pdfError
       /\ IF outcome = "text"
          THEN handleGenerateQuiz(t.negativeMarking, rest)
          ELSE /\ pending' = rest
               /\ UNCHANGED <<isLoading, error, quiz, negativeMarking, sessionVars>>
       /\ UNCHANGED <<mode, text, file, numQuestions, inputNegativeMarking,
                      localError>>

GenerationErrors ==
    {"Failed to generate quiz. Invalid quiz format received from API.",
     "An unknown error occurred while generating the quiz."}

\* The quizzes generateQuizFromText returns to the form
ResponseQuizzes ==
    {q \in Quizzes : Len(q.questions) <= MaxResponseQuestions}

\* handleGenerateQuiz after its await, the request having returned generatedQuiz
GenerateResolves(k, generatedQuiz, randoms) ==
    /\ quiz' = [questions |-> shuffleArray(generatedQuiz.questions, randoms)]
    /\ isLoading' = FALSE
    /\ pending' = Orphaned(RemoveAt(pending, k))
    /\ FormUnmounted
    /\ UNCHANGED <<error, negativeMarking, sessionVars>>

\* Mutant: the finally block is missing
GenerateRejects_NoFinally(k, message) ==
    /\ error' = message
    /\ pending' = RemoveAt(pending, k)
    /\ FreshSession
    /\ UNCHANGED <<isLoading, quiz, negativeMarking, formVars>>

\* handleGenerateQuiz after its await, the request having thrown
GenerateRejects(k, message) ==
    /\ error' = message
    /\ isLoading' = FALSE
    /\ pending' = RemoveAt(pending, k)
    /\ FreshSession
    /\ UNCHANGED <<quiz, negativeMarking, formVars>>

---------------------------------------------------------------------------
(* geminiService: the payload of the response and its validation *)

\* question objects as the response may carry them: three options for four,
\* a correctAnswer that is none of the options
PayloadQuestions ==
    [questionText : {"q"},
     options : {OptionList, <<"A", "B", "C">>},
     correctAnswer : {"A", "Z"}]

PayloadLists ==
    UNION {[1..n -> PayloadQuestions] : n \in 0..MaxResponseQuestions}

\* response.text: JSON with a questions array, JSON whose questions is absent
\* or is a string, or text that JSON.parse rejects
Payloads ==
    [shape : {"array"}, questions : PayloadLists]
        \cup [shape : {"missing", "string", "unparsable"}, questions : {<<>>}]

InvalidFormat == "Invalid quiz format received from API."
SyntaxError == "Unexpected token in JSON"

\* throw new Error(`Failed to generate quiz. ${error.message}`)
Wrapped(cause) == "Failed to generate quiz. " \o cause

\* generateQuizFromText from JSON.parse on: what it returns or throws
generateQuizFromText(payload) ==
    IF payload.shape = "unparsable"
    THEN [thrown |-> TRUE, message |-> Wrapped(SyntaxError), quiz |-> NoQuiz]
    ELSE IF payload.shape # "array"
    THEN [thrown |-> TRUE, message |-> Wrapped(InvalidFormat), quiz |-> NoQuiz]
    ELSE [thrown |-> FALSE, message |-> Null,
          quiz |-> [questions |-> payload.questions]]

\* handleGenerateQuiz after its await, the response having carried payload
GenerateSettles(k, payload) ==
    LET r == generateQuizFromText(payload)
    IN IF r.thrown
       THEN GenerateRejects(k, r.message)
       ELSE \E randoms \in RandomSequences(r.quiz.questions) :
               GenerateResolves(k, r.quiz, randoms)

InitDisplay ==
    /\ quiz = NoQuiz
    /\ negativeMarking = FALSE
    /\ userAnswers = NoAnswers
    /\ showResults = FALSE
    /\ isConfirmModalOpen = FALSE
    /\ lastCall = NoCall
    /\ answersAtSubmit = NoAnswers

\* shuffleArray has not been called
InitNoShuffle ==
    /\ shuffleIn = <<>>
    /\ shuffleRandoms = <<>>
    /\ shuffleOut = <<>>

Init ==
    /\ InitDisplay
    /\ InitNoShuffle
    /\ InitInput

ClickAnswer == AnswerSelect(AnswerButtonEnabled)
ClickSubmit == SubmitClick(SubmitButtonRendered, FALSE)
ClickConfirm == ConfirmSubmit(ModalRendered)
ClickCancel == CancelConfirm(ModalRendered)

Next ==
    \/ Generate
    \/ ClickAnswer
    \/ ClickSubmit
    \/ ClickConfirm
    \/ ClickCancel
    \/ Reset

Spec == Init /\ [][Next]_vars

\* The rendered program, with answersAtSubmit kept
ClickSubmitTracked == SubmitClick(SubmitButtonRendered, TRUE)

NextHist ==
    \/ Generate
    \/ ClickAnswer
    \/ ClickSubmitTracked
    \/ ClickConfirm
    \/ ClickCancel
    \/ Reset

SpecHist == Init /\ [][NextHist]_vars

\* The handlers called in any state of the mounted component
CallAnswerSelect == AnswerSelect(Mounted)
CallSubmitClick == SubmitClick(Mounted, FALSE)
CallConfirmSubmit == ConfirmSubmit(Mounted)
CallCancelConfirm == CancelConfirm(Mounted)

NextCalls ==
    \/ Generate
    \/ CallAnswerSelect
    \/ CallSubmitClick
    \/ CallConfirmSubmit
    \/ CallCancelConfirm
    \/ Reset

SpecCalls == Init /\ [][NextCalls]_vars

---------------------------------------------------------------------------
(* The count input, edited with every number *)

EditNumQuestions(inputs, enabled) ==
    /\ enabled
    /\ \E num \in inputs :
          /\ numQuestionsOnChange(num)
          /\ lastNumInput' = num
    /\ lastCall' = "numQuestionsOnChange"
    /\ UNCHANGED <<mode, text, file, inputNegativeMarking, localError,
                   isProcessing, pdfError, appVars>>
    /\ UNCHANGED <<quiz, negativeMarking, sessionVars, answersAtSubmit, shuffleVars>>

TypeNumQuestions == EditNumQuestions(NumberInputs, FormShown)

NextNumQuestions == TypeNumQuestions

SpecNumQuestions == Init /\ [][NextNumQuestions]_vars

---------------------------------------------------------------------------
(* The form, the requests it starts and the session they lead to *)

frameOfForm == <<quiz, negativeMarking, sessionVars, answersAtSubmit, shuffleVars,
                 appVars, lastNumInput>>

SetMode(enabled) ==
    /\ enabled
    /\ \E m \in {"text", "pdf"} : mode' = m
    /\ lastCall' = "setMode"
    /\ UNCHANGED <<text, file, numQuestions, inputNegativeMarking, localError,
                   isProcessing, pdfError>>
    /\ UNCHANGED frameOfForm

SetText(texts, enabled) ==
    /\ enabled
    /\ \E t \in texts : text' = t
    /\ lastCall' = "setText"
    /\ UNCHANGED <<mode, file, numQuestions, inputNegativeMarking, localError,
                   isProcessing, pdfError>>
    /\ UNCHANGED frameOfForm

FileChange(enabled) ==
    /\ enabled
    /\ \E selectedFile \in Files : handleFileChange(selectedFile)
    /\ lastCall' = "handleFileChange"
    /\ UNCHANGED <<mode, text, numQuestions, inputNegativeMarking,
                   isProcessing, pdfError>>
    /\ UNCHANGED frameOfForm

\* onChange={() => setNegativeMarking(!negativeMarking)}
ToggleNegativeMarking(enabled) ==
    /\ enabled
    /\ inputNegativeMarking' = ~inputNegativeMarking
    /\ lastCall' = "setNegativeMarking"
    /\ UNCHANGED <<mode, text, file, numQuestions, localError, isProcessing,
                   pdfError>>
    /\ UNCHANGED frameOfForm

SubmitForm(enabled) ==
    /\ enabled
    /\ handleSubmit
    /\ lastCall' = "handleSubmit"
    /\ UNCHANGED <<mode, text, file, numQuestions, inputNegativeMarking>>
    /\ UNCHANGED <<answersAtSubmit, shuffleVars, lastNumInput>>

SettleParse ==
    /\ \E k \in DOMAIN pending :
          /\ pending[k].kind = "parse"
          /\ \E outcome \in ParseOutcomes(pending[k].file) :
                ParseSettles(k, outcome)
    /\ lastCall' = "parseSettled"
    /\ UNCHANGED <<answersAtSubmit, shuffleVars, lastNumInput>>

SettleGenerate ==
    /\ \E k \in DOMAIN pending :
          /\ pending[k].kind = "generate"
          /\ \/ \E generatedQuiz \in ResponseQuizzes :
                   \E randoms \in RandomSequences(generatedQuiz.questions) :
                      GenerateResolves(k, generatedQuiz, randoms)
             \/ \E message \in GenerationErrors : GenerateRejects(k, message)
    /\ lastCall' = "generateSettled"
    /\ UNCHANGED <<answersAtSubmit, shuffleVars, lastNumInput>>

ClickTab == SetMode(InputMounted)
TypeText == SetText(TextsFew, FormShown /\ mode = "text")
PickFile == FileChange(FormShown /\ mode = "pdf")
TypeCount == EditNumQuestions(NumberInputsFew, FormShown)
ClickNegativeMarking == ToggleNegativeMarking(FormShown)
ClickGenerate == SubmitForm(FormShown /\ ~isButtonDisabled)

NextInput ==
    \/ ClickTab
    \/ TypeText
    \/ PickFile
    \/ TypeCount
    \/ ClickNegativeMarking
    \/ ClickGenerate
    \/ SettleParse
    \/ SettleGenerate
    \/ ClickAnswer
    \/ ClickSubmit
    \/ ClickConfirm
    \/ ClickCancel
    \/ Reset

SpecInput == Init /\ [][NextInput]_vars

\* The same, every promise awaited being one that settles
SpecInputFair ==
    SpecInput /\ WF_vars(SettleParse) /\ WF_vars(SettleGenerate)

\* The text path: its handlers called in any state of the mounted form, with
\* the generation requests they start and the sessions those lead to
CallSetText == SetText(Texts, InputMounted)
CallCountChange == EditNumQuestions(NumberInputsFew, InputMounted)
CallHandleSubmit == SubmitForm(InputMounted)

NextTextCalls ==
    \/ CallSetText
    \/ CallCountChange
    \/ CallHandleSubmit
    \/ SettleGenerate
    \/ ClickAnswer
    \/ ClickSubmit
    \/ ClickConfirm
    \/ ClickCancel
    \/ Reset

SpecTextCalls == Init /\ [][NextTextCalls]_vars

---------------------------------------------------------------------------
(* The text path as rendered, with every payload the response may carry *)

SettlePayload ==
    /\ \E k \in DOMAIN pending :
          /\ pending[k].kind = "generate"
          /\ \E payload \in Payloads : GenerateSettles(k, payload)
    /\ lastCall' = "generateSettled"
    /\ UNCHANGED <<answersAtSubmit, shuffleVars, lastNumInput>>

NextPayload ==
    \/ TypeText
    \/ ClickNegativeMarking
    \/ ClickGenerate
    \/ SettlePayload
    \/ ClickAnswer
    \/ ClickSubmit
    \/ ClickConfirm
    \/ ClickCancel
    \/ Reset

SpecPayload == Init /\ [][NextPayload]_vars

---------------------------------------------------------------------------
(* shuffleArray on every array and every run of Math.random() *)

NotShuffled == <<[pending |-> TRUE]>>

InitShuffle ==
    /\ InitDisplay
    /\ shuffleIn \in ShuffleInputs
    /\ shuffleRandoms \in RandomSequences(shuffleIn)
    /\ shuffleOut = NotShuffled
    /\ InitInput

CallShuffleArray ==
    /\ shuffleOut = NotShuffled
    /\ shuffleOut' = shuffleArray(shuffleIn, shuffleRandoms)
    /\ UNCHANGED <<shuffleIn, shuffleRandoms>>
    /\ UNCHANGED <<displayVars, inputVars>>

NextShuffle == CallShuffleArray

SpecShuffle == InitShuffle /\ [][NextShuffle]_vars

---------------------------------------------------------------------------
(* The phases of a session *)

Answering == Mounted /\ ~showResults /\ ~isConfirmModalOpen
ConfirmPending == Mounted /\ ~showResults /\ isConfirmModalOpen
Results == Mounted /\ showResults /\ ~isConfirmModalOpen

AllAnswered == \A i \in QuestionIndices : i \in DOMAIN userAnswers

CorrectIndices ==
    {i \in QuestionIndices :
        i \in DOMAIN userAnswers /\ userAnswers[i] = QuestionAt(i).correctAnswer}
IncorrectIndices ==
    {i \in QuestionIndices :
        i \in DOMAIN userAnswers /\ userAnswers[i] # QuestionAt(i).correctAnswer}
UnansweredIndices == {i \in QuestionIndices : i \notin DOMAIN userAnswers}

---------------------------------------------------------------------------
(* Claims *)

\* C1: a submit issued in Answering leads to Results exactly when every question
\* index 0..N-1 has a recorded answer, and to ConfirmPending otherwise; no step
\* other than such a submit enters ConfirmPending.
C1_SubmitDecides ==
    [][ /\ (Answering /\ lastCall' = "submit" /\ AllAnswered) => Results'
        /\ (Answering /\ lastCall' = "submit" /\ ~AllAnswered) => ConfirmPending'
        /\ (~ConfirmPending /\ ConfirmPending') =>
              (Answering /\ lastCall' = "submit" /\ ~AllAnswered) ]_vars

\* Both outcomes of submit in Answering happen: here the direct one, after a
\* submit with every one of at least two questions answered.
C1_Witness ==
    /\ Results
    /\ lastCall = "submit"
    /\ NumQuestions >= 2
    /\ AllAnswered

\* C2: a selectAnswer call made while results are shown leaves userAnswers as
\* it was.
C2_SelectFrozenInResults ==
    [][ (Mounted /\ showResults /\ lastCall' = "selectAnswer")
            => userAnswers' = userAnswers ]_vars

\* selectAnswer was called with results shown and questions left unanswered
C2_Witness ==
    /\ Mounted
    /\ showResults
    /\ lastCall = "selectAnswer"
    /\ ~AllAnswered

\* C3: a selectAnswer call made in ConfirmPending leaves userAnswers as it was.
C3_SelectFrozenInConfirmPending ==
    [][ (ConfirmPending /\ lastCall' = "selectAnswer")
            => userAnswers' = userAnswers ]_vars

\* C4: cancelConfirm in ConfirmPending leads to Answering with userAnswers as
\* they were at the submit that opened the modal; confirm in ConfirmPending
\* leads to Results.
C4_CancelRestoresConfirmShows ==
    [][ /\ (ConfirmPending /\ lastCall' = "cancelConfirm") =>
              (Answering' /\ userAnswers' = answersAtSubmit)
        /\ (ConfirmPending /\ lastCall' = "confirm") => Results' ]_vars

\* C5: once results are shown the modal is closed, and no call but reset
\* changes showResults, isConfirmModalOpen or userAnswers.
C5_ResultsTerminal ==
    [][ /\ (Mounted' /\ showResults') => ~isConfirmModalOpen'
        /\ (Mounted /\ showResults /\ lastCall' # "reset") =>
              UNCHANGED <<showResults, isConfirmModalOpen, userAnswers>> ]_vars

\* C6: with results shown, correctCount counts the indices whose recorded
\* answer is the question's correctAnswer, incorrectCount those whose recorded
\* answer differs, and score is correctCount without negative marking and
\* correctCount - incorrectCount (possibly negative) with it.
C6_ScoreCounts ==
    (Mounted /\ showResults) =>
        /\ ScoreMemo.correctCount = Cardinality(CorrectIndices)
        /\ ScoreMemo.incorrectCount = Cardinality(IncorrectIndices)
        /\ ScoreMemo.score =
              IF negativeMarking
              THEN Cardinality(CorrectIndices) - Cardinality(IncorrectIndices)
              ELSE Cardinality(CorrectIndices)

\* Negative marking on, more incorrect than correct answers: the score is negative
C6_Witness ==
    /\ Mounted
    /\ showResults
    /\ negativeMarking
    /\ NumQuestions = 3
    /\ Cardinality(CorrectIndices) = 0
    /\ Cardinality(IncorrectIndices) = 2
    /\ ScoreMemo.score = -2

\* C7: with results shown, the three counts add up to the number of questions
\* and unansweredCount is the number of indices with no recorded answer.
C7_CountsPartition ==
    (Mounted /\ showResults) =>
        /\ ScoreMemo.correctCount + ScoreMemo.incorrectCount
              + ScoreMemo.unansweredCount = NumQuestions
        /\ ScoreMemo.unansweredCount = Cardinality(UnansweredIndices)

\* Results reached through the modal with one answer of each kind
C7_Witness ==
    /\ Results
    /\ lastCall = "confirm"
    /\ NumQuestions = 3
    /\ ScoreMemo.correctCount = 1
    /\ ScoreMemo.incorrectCount = 1
    /\ ScoreMemo.unansweredCount = 1

SeqToBag(s) == [x \in Range(s) |-> Cardinality({k \in DOMAIN s : s[k] = x})]

\* C9: shuffleArray returns a permutation of its argument (same length, same
\* elements with the same multiplicities) for every array and every run of
\* random values; each index drawn for position i lies in 0..i, and the first
\* exchange puts the element drawn for the last position there for good.
C9_ShufflePermutes ==
    shuffleOut # NotShuffled =>
    /\ Len(shuffleOut) = Len(shuffleIn)
    /\ SeqToBag(shuffleOut) = SeqToBag(shuffleIn)
    /\ \A k \in DOMAIN shuffleRandoms :
          RandomIndex(shuffleRandoms[k], Len(shuffleIn) - k) \in
              0..(Len(shuffleIn) - k)
    /\ Len(shuffleIn) >= 2 =>
          shuffleOut[Len(shuffleIn)] =
              shuffleIn[RandomIndex(shuffleRandoms[1], Len(shuffleIn) - 1) + 1]

\* Three different questions come back in reverse order
C9_Witness ==
    /\ Len(shuffleIn) = 3
    /\ Cardinality(Range(shuffleIn)) = 3
    /\ shuffleOut = <<shuffleIn[3], shuffleIn[2], shuffleIn[1]>>

\* floor(x) for x = scaled / NumberScale, found rather than divided
FloorOf(scaled) ==
    CHOOSE k \in (0 - NumberMargin - 1)..(NumQuestionsMax + NumberMargin + 1) :
        k * NumberScale <= scaled /\ scaled < (k + 1) * NumberScale

Max(a, b) == IF a >= b THEN a ELSE b
Min(a, b) == IF a <= b THEN a ELSE b

\* C8: the stored count is an integer in 1..50; after an edit it is 1 when the
\* input was NaN and max(1, min(50, floor(x))) when it was the number x.
C8_CountClamped ==
    /\ numQuestions \in NumQuestionsMin..NumQuestionsMax
    /\ lastCall = "numQuestionsOnChange" =>
          IF isNaN(lastNumInput)
          THEN numQuestions = 1
          ELSE numQuestions = Max(1, Min(50, FloorOf(lastNumInput.scaled)))

\* 50.75 was typed and 50 is stored
C8_Witness ==
    /\ lastCall = "numQuestionsOnChange"
    /\ ~isNaN(lastNumInput)
    /\ lastNumInput.scaled > NumQuestionsMax * NumberScale
    /\ lastNumInput.scaled < (NumQuestionsMax + 1) * NumberScale
    /\ numQuestions = NumQuestionsMax

---------------------------------------------------------------------------
(* C10 *)

\* handleSubmit returned at a validation error and called nothing
SubmitRejected ==
    /\ localError' # Null
    /\ UNCHANGED <<pending, isLoading, error, quiz>>

\* handleSubmit called onGenerate: a generation request has started
SubmitAccepted ==
    /\ localError' = Null
    /\ pending' = Append(pending, GenerateTask)
    /\ isLoading'

Padded(t) == t # <<>> /\ (t[1] \in Whitespace \/ t[Len(t)] \in Whitespace)

---------------------------------------------------------------------------
(* C11 *)

\* A PDF parse or a generation request starts in this step: handleSubmit has
\* put one in flight, or a settled parse has handed its text to generation
OperationStarts ==
    \/ lastCall' = "handleSubmit" /\ Len(pending') > Len(pending)
    \/ lastCall' = "parseSettled" /\ Len(pending') = Len(pending)

\* C11: whenever a new PDF parse or a new generation request starts, in either
\* input mode, no error of an earlier operation is still set: the validation
\* error, the PDF parse error and the generation error are all null.
C11_ErrorsClearedOnStart ==
    [][ OperationStarts =>
           /\ localError' = Null
           /\ pdfError' = Null
           /\ error' = Null ]_vars

---------------------------------------------------------------------------
(* C12 *)

\* C12: at most one PDF parse or generation request is in flight at any time;
\* while one is in flight a busy flag (isProcessing or isLoading) is true and
\* the generate action is disabled and not rendered, so that no second one can
\* start, the hand-over from a finished parse to its generation included.
C12_OneInFlight ==
    /\ Len(pending) <= 1
    /\ pending # <<>> =>
          /\ isLoading \/ isProcessing
          /\ isButtonDisabled
          /\ ~FormShown

\* A finished parse has handed over to generation: that request alone is in
\* flight, under isLoading
C12_Witness ==
    /\ lastCall = "parseSettled"
    /\ Len(pending) = 1
    /\ pending[1].kind = "generate"
    /\ isLoading
    /\ ~isProcessing

---------------------------------------------------------------------------
(* C13 *)

\* Nothing is awaited, no busy flag is set, and the form or the quiz is there
\* to be used
Interactive ==
    /\ pending = <<>>
    /\ ~isLoading
    /\ ~isProcessing
    /\ FormShown \/ Mounted

\* This step is the catch of processPdf
ParseFails ==
    /\ lastCall' = "parseSettled"
    /\ \E k \in DOMAIN pending :
          pending[k].kind = "parse" /\ ParseSettles(k, "rejected")

\* This step is the catch of handleGenerateQuiz
GenerationFails ==
    /\ lastCall' = "generateSettled"
    /\ \E k \in DOMAIN pending :
          /\ pending[k].kind = "generate"
          /\ \E message \in GenerationErrors : GenerateRejects(k, message)

\* The form is shown with no quiz and with the error of the failed operation
RetryWithError(message) ==
    /\ quiz = NoQuiz
    /\ message # Null
    /\ FormShown

\* C13: every started PDF parse or generation request that resolves or fails
\* leads to an interactive state, with both busy flags false; the step in which
\* one fails leaves no quiz set, an error message set and the input form
\* available for retry.
C13_SettlesToInteractive ==
    /\ [][ /\ ParseFails => (Interactive /\ RetryWithError(pdfError))'
           /\ GenerationFails => (Interactive /\ RetryWithError(error))' ]_vars
    /\ (pending # <<>>) ~> Interactive

\* A generation request has failed and the form is back with its error
C13_Witness ==
    /\ lastCall = "generateSettled"
    /\ Interactive
    /\ RetryWithError(error)

---------------------------------------------------------------------------
(* C14 *)

\* text, exactly four options, and a correctAnswer that is one of them
ConformantQuestion(question) ==
    /\ question.questionText # ""
    /\ Len(question.options) = 4
    /\ question.correctAnswer \in Range(question.options)

ConformantList(questions) ==
    \A i \in DOMAIN questions : ConformantQuestion(questions[i])

ConformantPayload(payload) ==
    payload.shape = "array" /\ ConformantList(payload.questions)

\* The generation request settles in this step on this payload
SettlesOn(payload) ==
    /\ lastCall' = "generateSettled"
    /\ \E k \in DOMAIN pending :
          pending[k].kind = "generate" /\ GenerateSettles(k, payload)

\* C14: generate validates the payload before use: every quiz it returns, and
\* a session then displays and scores, has only questions with text, exactly
\* four options and a correctAnswer among its options; on any other payload it
\* fails with an error whose message wraps the cause, and no quiz is set.
C14_PayloadValidated ==
    [][ \A payload \in Payloads :
           SettlesOn(payload) =>
              IF ConformantPayload(payload)
              THEN quiz' # NoQuiz /\ ConformantList(quiz'.questions)
              ELSE /\ quiz' = NoQuiz
                   /\ \E cause \in {InvalidFormat, SyntaxError} :
                         error' = Wrapped(cause) ]_vars

---------------------------------------------------------------------------
(* C15 *)

\* C15: from a fresh session on, whatever controls of QuizDisplay are used,
\* showResults and isConfirmModalOpen are never both true: the session is in
\* exactly one of Answering, ConfirmPending and Results.
C15_OnePhase ==
    Mounted =>
       /\ ~(showResults /\ isConfirmModalOpen)
       /\ Answering \/ ConfirmPending \/ Results

===========================================================================
